---- MODULE Spec2Model ----
(***************************************************************************)
(* Deployment tasks of pugo: the remote-filesystem backend (SftpTask) and  *)
(* the repository backend (GitTask).                                       *)
(*                                                                         *)
(* A path is a sequence of components (<<"d","f">> is d/f).  Remote files  *)
(* are keyed by the path relative to the configured remote root; remote    *)
(* directories by their full path (root joined with the relative dir).     *)
(***************************************************************************)
EXTENDS Integers, Sequences, FiniteSets, TLC

\* ---------------------------------------------------------------- bounds
MaxEntries == 3        \* most entries in one diff
MaxTime == 2           \* modification times are 1..MaxTime
MaxAttempts == 2       \* SftpTask.Do invocations against one remote
MaxRetryEntries == 2   \* most entries in a diff that is replayed again
MaxLines == 2          \* most lines "git branch" prints
MaxClock == 2          \* the wall clock runs from 1 to MaxClock
MaxInvocations == 2    \* GitTask.Do invocations on one task
MaxCredLen == 3        \* most characters between the scheme and the "@"

\* ------------------------------------------------------------- constants
DIFF_ADD == "ADD"
DIFF_KEEP == "KEEP"
DIFF_REMOVE == "REMOVE"
Behaviors == {DIFF_ADD, DIFF_KEEP, DIFF_REMOVE}

Times == 1..MaxTime

\* relative paths of the build output a diff can name
Paths == {<<"f">>, <<"d", "f">>, <<"d", "e", "g">>}

\* ft.opt.Directory, the configured remote root
Directory == <<"srv", "www">>

BuildCounts == {1, 2}

NoEntry == [behavior |-> "none", time |-> 0]
\* DiffEntry.  Time is read for KEEP entries only (line 169), so the other
\* entries are enumerated with one time
Entries ==
  {e \in [behavior : Behaviors, time : Times] :
     e.behavior # DIFF_KEEP => e.time = 1}

NoFile == [exists |-> FALSE, content |-> "none", mtime |-> 0]
\* content: "old" what an earlier deployment left, "new" the bytes of the
\* local file of this build, "partial" a created file whose copy failed
RemoteFiles == [exists : {TRUE}, content : {"old"}, mtime : Times]

Nil == [kind |-> "nil", path |-> <<>>]
Err(k, p) == [kind |-> k, path |-> p]

\* ------------------------------------------------------------------ state
VARIABLES
  diff,         \* ctx.Diff: path -> entry, NoEntry when the path has none
  count,        \* b.Count
  rfiles,       \* remote files under Directory: rel path -> file
  rdirs,        \* remote directories that exist (full paths)
  pc,           \* position of SftpTask.Do: "idle", "prime", "walk", "done"
  conn,         \* transport session: "none", "open", "closed"
  client,       \* file-transfer session: "none", "open", "closed"
  err,          \* error Do returns (Nil while none)
  visited,      \* paths the walk has visited in this run, in order
  oplog,        \* operations issued in this run, in order
  createdDirs,  \* memo of uploadAllFiles
  attempt,      \* number of the current Do invocation
  fault,        \* the network, server or local disk failed an operation in this run
  prev          \* the error of the run before, the remote files when this run began

\* GitTask and its process
VARIABLES
  Branch,       \* g.opt.Branch
  gpc,          \* position of GitTask.Do: "idle", "read", "add", "commit", "push", "done"
  isRepo,       \* the destination holds a .git directory
  content,      \* stdout of "git branch" in this invocation
  gops,         \* process operations issued in this invocation, in order
  gerr,         \* error Do returns (GitNil while none)
  gfail,        \* the step that failed in this invocation and its stderr
  clock,        \* wall clock of the process
  startTime,    \* time.Now() when the package variables were initialised
  messages,     \* commit messages used, over all invocations, with their time
  invocation    \* number of the current Do invocation

\* construction of a task from a configuration string
VARIABLES
  conf,         \* the configuration string
  cpc,          \* "start", "parsed" after SftpTask.New, "selected" after the selection
  parsed,       \* what SftpTask.New(conf) returned
  selected      \* what the selection over the backends returned, per order

confVars == <<conf, cpc, parsed, selected>>

gitVars == <<Branch, gpc, isRepo, content, gops, gerr, gfail, clock,
             startTime, messages, invocation>>

sftpVars == <<diff, count, rfiles, rdirs, pc, conn, client, err, visited,
              oplog, createdDirs, attempt, fault, prev>>

\* ---------------------------------------------------------------- helpers
Front(s) == SubSeq(s, 1, Len(s) - 1)

Range(s) == {s[i] : i \in 1..Len(s)}

\* path.Join(a, b)
Join(a, b) == a \o b

\* getDirs(dir): dir and its ancestors, deepest first; empty for "."
getDirs(dir) == [i \in 1..Len(dir) |-> SubSeq(dir, 1, Len(dir) - i + 1)]

\* path.Dir(rel)
Dir(rel) == Front(rel)

Op(o, p, ok) == [op |-> o, path |-> p, ok |-> ok]

\* client.Mkdir(abs): fails when the directory exists, when its parent is
\* missing, or when the server refuses (denied)
MkdirOk(rd, abs, denied) ==
  /\ abs \notin rd
  /\ Len(abs) = 1 \/ Front(abs) \in rd
  /\ ~denied

\* the set of diffs: at most MaxEntries paths carry an entry
Diffs ==
  {d \in [Paths -> Entries \cup {NoEntry}] :
     Cardinality({p \in Paths : d[p] # NoEntry}) <= MaxEntries}

DiffPaths == {p \in Paths : diff[p] # NoEntry}

\* the chains of directories a remote can start with: a prefix of
\* srv, srv/www, srv/www/d, srv/www/d/e
DirChain == << <<"srv">>, <<"srv", "www">>, <<"srv", "www", "d">>,
               <<"srv", "www", "d", "e">> >>
InitialDirs == {{DirChain[i] : i \in 1..k} : k \in 0..Len(DirChain)}

\* ------------------------------------------------------- SftpTask: state
\* a remote file exists only inside an existing directory
RemoteConsistent(rf, rd) ==
  \A p \in Paths : rf[p].exists => Join(Directory, Dir(p)) \in rd

SftpInit ==
  /\ diff \in Diffs
  /\ count \in BuildCounts
  /\ rdirs \in InitialDirs
  /\ rfiles \in [Paths -> RemoteFiles \cup {NoFile}]
  /\ \A p \in Paths : diff[p] = NoEntry => rfiles[p] = NoFile
  /\ RemoteConsistent(rfiles, rdirs)
  /\ pc = "idle"
  /\ conn = "none"
  /\ client = "none"
  /\ err = Nil
  /\ visited = <<>>
  /\ oplog = <<>>
  /\ createdDirs = {}
  /\ attempt = 1
  /\ fault = FALSE
  /\ prev = [ran |-> FALSE, err |-> Nil, rfiles |-> rfiles]

\* ------------------------------------------------- SftpTask: connection
\* connectSftp followed by the error check of Do: a failed dial opens
\* nothing; a failed sftp.NewClient returns the dialled connection together
\* with the error, and Do returns before its defers are registered
Connect ==
  /\ pc = "idle"
  /\ \E out \in {"dial", "newclient", "ok"} :
       /\ conn' = IF out = "dial" THEN "none" ELSE "open"
       /\ client' = IF out = "ok" THEN "open" ELSE "none"
       /\ err' = IF out = "ok" THEN Nil ELSE Err(out, <<>>)
       /\ pc' = IF out = "ok" THEN "prime" ELSE "done"
       /\ fault' = (fault \/ out # "ok")
  /\ UNCHANGED <<diff, count, rfiles, rdirs, visited, oplog, createdDirs,
                 attempt, prev>>
  /\ UNCHANGED <<gitVars, confVars>>

\* ---------------------------------------------------- directory priming
\* makeSftpDir(client, dirs) from index i down to 1: stops at the first
\* Mkdir that fails.  st = [rd, log]; deny = the directories the server
\* refuses to create
RECURSIVE makeSftpDir(_, _, _, _)
makeSftpDir(dirs, i, st, deny) ==
  IF i = 0 THEN st
  ELSE IF MkdirOk(st.rd, dirs[i], dirs[i] \in deny)
       THEN makeSftpDir(dirs, i - 1,
                        [rd |-> st.rd \cup {dirs[i]},
                         log |-> Append(st.log, Op("mkdir", dirs[i], TRUE))],
                        deny)
       ELSE [rd |-> st.rd, log |-> Append(st.log, Op("mkdir", dirs[i], FALSE))]

\* Do, lines 95-96: the result of makeSftpDir is dropped
Prime ==
  /\ pc = "prime"
  /\ \E deny \in SUBSET Range(getDirs(Directory)) :
       LET dirs == getDirs(Directory)
           st == makeSftpDir(dirs, Len(dirs), [rd |-> rdirs, log |-> oplog], deny)
       IN /\ rdirs' = st.rd
          /\ oplog' = st.log
          /\ fault' = (fault \/ deny # {})
  /\ pc' = "walk"
  /\ UNCHANGED <<diff, count, rfiles, conn, client, err, visited,
                 createdDirs, attempt, prev>>
  /\ UNCHANGED <<gitVars, confVars>>

\* ------------------------------------------------------------ the visitor
\* What the network, the server and the local disk do during one visit:
\* out   the step that is failed ("open", "create", "copy", "remove") or "ok"
\* t     the modification time the server gives a written file: its clock,
\*       which is not behind the time of any entry of the build
\* deny  the directories the server refuses to create
\* stat  whether client.Stat gets an answer
Ancestors(p) == Range(getDirs(Dir(p)))

Envs(p) ==
  IF diff[p].behavior = DIFF_REMOVE
  THEN [out : {"ok", "remove"}, t : {MaxTime}, deny : {{}}, stat : {TRUE}]
  ELSE [out : {"ok", "open", "create", "copy"}, t : {MaxTime},
        deny : SUBSET Ancestors(p),
        stat : IF diff[p].behavior = DIFF_KEEP /\ count >= 2 THEN BOOLEAN ELSE {TRUE}]

Benign(env) == env.out = "ok" /\ env.deny = {} /\ env.stat

\* client.Remove with its error dropped
RemoveSwallow(p, st, env) ==
  LET done == env.out = "ok" /\ st.rf[p].exists
  IN [st EXCEPT !.rf = IF done THEN [st.rf EXCEPT ![p] = NoFile] ELSE st.rf,
                !.log = Append(st.log, Op("remove", p, done)),
                !.err = Nil]

\* client.Remove(path.Join(Directory, rel)) and the return of its error
\* (lines 116-119, 160-163): fails on a missing file or when the server
\* refuses.  st = [rf, rd, memo, log, err]
Remove(p, st, env) ==
  LET done == env.out = "ok" /\ st.rf[p].exists
  IN [st EXCEPT !.rf = IF done THEN [st.rf EXCEPT ![p] = NoFile] ELSE st.rf,
                !.log = Append(st.log, Op("remove", p, done)),
                !.err = IF done THEN Nil ELSE Err("remove", p)]

\* client.Create can succeed only inside an existing directory
CanCreate(p, rd) == Join(Directory, Dir(p)) \in rd

\* Upload with the failure of io.Copy dropped (nil returned)
UploadSwallowCopy(p, st, env) ==
  IF env.out = "open"
  THEN [st EXCEPT !.log = Append(st.log, Op("open", p, FALSE)),
                  !.err = Err("open", p)]
  ELSE IF env.out = "create" \/ ~(Join(Directory, Dir(p)) \in st.rd)
  THEN [st EXCEPT !.log = st.log \o <<Op("open", p, TRUE), Op("create", p, FALSE)>>,
                  !.err = Err("create", p)]
  ELSE [st EXCEPT !.rf = [st.rf EXCEPT ![p] =
                            [exists |-> TRUE,
                             content |-> IF env.out = "copy" THEN "partial" ELSE "new",
                             mtime |-> env.t]],
                  !.log = st.log \o <<Op("open", p, TRUE), Op("create", p, TRUE),
                                      Op("copy", p, env.out # "copy")>>,
                  !.err = Nil]

\* os.Open, client.Create, io.Copy (lines 134-151 and 180-197): Create
\* truncates the remote file, a failed copy leaves it partial.  The local
\* open is logged with the remote operations (op "open")
Upload(p, st, env) ==
  IF env.out = "open"
  THEN [st EXCEPT !.log = Append(st.log, Op("open", p, FALSE)),
                  !.err = Err("open", p)]
  ELSE IF env.out = "create" \/ ~CanCreate(p, st.rd)
  THEN [st EXCEPT !.log = st.log \o <<Op("open", p, TRUE), Op("create", p, FALSE)>>,
                  !.err = Err("create", p)]
  ELSE IF env.out = "copy"
  THEN [st EXCEPT !.rf = [st.rf EXCEPT ![p] =
                            [exists |-> TRUE, content |-> "partial", mtime |-> env.t]],
                  !.log = st.log \o <<Op("open", p, TRUE), Op("create", p, TRUE),
                                      Op("copy", p, FALSE)>>,
                  !.err = Err("copy", p)]
  ELSE [st EXCEPT !.rf = [st.rf EXCEPT ![p] =
                            [exists |-> TRUE, content |-> "new", mtime |-> env.t]],
                  !.log = st.log \o <<Op("open", p, TRUE), Op("create", p, TRUE),
                                      Op("copy", p, TRUE)>>,
                  !.err = Nil]

\* the Mkdir loop of uploadAllFiles without the test of the memo
RECURSIVE AllMkdirsNoMemo(_, _, _, _)
AllMkdirsNoMemo(dirs, i, st, deny) ==
  IF i = 0 THEN st
  ELSE LET dir == dirs[i]
           abs == Join(Directory, dir)
           ok == MkdirOk(st.rd, abs, dir \in deny)
       IN AllMkdirsNoMemo(dirs, i - 1,
            [st EXCEPT !.rd = IF ok THEN st.rd \cup {abs} ELSE st.rd,
                       !.memo = IF ok THEN st.memo \cup {dir} ELSE st.memo,
                       !.log = Append(st.log, Op("mkdir", abs, ok))],
            deny)

\* uploadAllFiles, lines 122-132: Mkdir for every ancestor not in the memo,
\* shallowest first; a directory enters the memo only when Mkdir succeeded
RECURSIVE AllMkdirs(_, _, _, _)
AllMkdirs(dirs, i, st, deny) ==
  IF i = 0 THEN st
  ELSE LET dir == dirs[i]
           abs == Join(Directory, dir)
           ok == MkdirOk(st.rd, abs, dir \in deny)
       IN IF dir \in st.memo THEN AllMkdirs(dirs, i - 1, st, deny)
          ELSE AllMkdirs(dirs, i - 1,
                 [st EXCEPT !.rd = IF ok THEN st.rd \cup {abs} ELSE st.rd,
                            !.memo = IF ok THEN st.memo \cup {dir} ELSE st.memo,
                            !.log = Append(st.log, Op("mkdir", abs, ok))],
                 deny)

\* uploadDiffFiles, lines 175-178: Mkdir for every ancestor, result dropped
RECURSIVE DiffMkdirs(_, _, _, _)
DiffMkdirs(dirs, i, st, deny) ==
  IF i = 0 THEN st
  ELSE LET dir == dirs[i]
           abs == Join(Directory, dir)
           ok == MkdirOk(st.rd, abs, dir \in deny)
       IN DiffMkdirs(dirs, i - 1,
            [st EXCEPT !.rd = IF ok THEN st.rd \cup {abs} ELSE st.rd,
                       !.log = Append(st.log, Op("mkdir", abs, ok))],
            deny)

\* uploadAllFiles without the DIFF_REMOVE branch
uploadAllFilesNoRemove(p, st, env) ==
  LET dirs == getDirs(Dir(p))
  IN Upload(p, AllMkdirs(dirs, Len(dirs), st, env.deny),
            [env EXCEPT !.out = IF @ = "remove" THEN "create" ELSE @])

\* the visitor of uploadAllFiles on path p (lines 112-152)
uploadAllFiles(p, st, env) ==
  IF diff[p].behavior = DIFF_REMOVE THEN Remove(p, st, env)
  ELSE LET dirs == getDirs(Dir(p))
       IN Upload(p, AllMkdirs(dirs, Len(dirs), st, env.deny), env)

\* client.Stat(target), error dropped: nil unless the file exists and the
\* server answers
Stat(rf, p, env) == IF env.stat THEN rf[p] ELSE NoFile

\* lines 167-172: skip when the remote file was found and
\* entry.Time.Sub(fi.ModTime()).Seconds() < 0
SkipKeep(entry, fi) ==
  /\ fi.exists
  /\ entry.time - fi.mtime < 0

\* uploadDiffFiles with the skip test applied to ADD entries as well
uploadDiffFilesSkipAny(p, st, env) ==
  IF diff[p].behavior = DIFF_REMOVE THEN Remove(p, st, env)
  ELSE LET fi == Stat(st.rf, p, env)
           st1 == [st EXCEPT !.log = Append(st.log, Op("stat", p, fi.exists))]
           dirs == getDirs(Dir(p))
       IN IF SkipKeep(diff[p], fi)
          THEN st1
          ELSE Upload(p, DiffMkdirs(dirs, Len(dirs), st1, env.deny), env)

\* uploadDiffFiles with the directories made after the upload
uploadDiffFilesMkdirLast(p, st, env) ==
  IF diff[p].behavior = DIFF_REMOVE THEN Remove(p, st, env)
  ELSE LET fi == Stat(st.rf, p, env)
           st1 == IF diff[p].behavior = DIFF_KEEP
                  THEN [st EXCEPT !.log = Append(st.log, Op("stat", p, fi.exists))]
                  ELSE st
           dirs == getDirs(Dir(p))
       IN IF diff[p].behavior = DIFF_KEEP /\ SkipKeep(diff[p], fi)
          THEN st1
          ELSE DiffMkdirs(dirs, Len(dirs), Upload(p, st1, env), env.deny)

\* the visitor of uploadDiffFiles on path p (lines 156-198)
uploadDiffFiles(p, st, env) ==
  IF diff[p].behavior = DIFF_REMOVE THEN Remove(p, st, env)
  ELSE LET fi == Stat(st.rf, p, env)
           st1 == IF diff[p].behavior = DIFF_KEEP
                  THEN [st EXCEPT !.log = Append(st.log, Op("stat", p, fi.exists))]
                  ELSE st
           dirs == getDirs(Dir(p))
       IN IF diff[p].behavior = DIFF_KEEP /\ SkipKeep(diff[p], fi)
          THEN st1
          ELSE Upload(p, DiffMkdirs(dirs, Len(dirs), st1, env.deny), env)

\* ctx.Diff.Walk: the entries not yet visited; none once the visitor failed
WalkNext == IF err # Nil THEN {} ELSE DiffPaths \ Range(visited)

VisitState == [rf |-> rfiles, rd |-> rdirs, memo |-> createdDirs,
               log |-> oplog, err |-> Nil]

Visited(p, st, env) ==
  /\ rfiles' = st.rf
  /\ rdirs' = st.rd
  /\ createdDirs' = st.memo
  /\ oplog' = st.log
  /\ err' = st.err
  /\ visited' = Append(visited, p)
  /\ fault' = (fault \/ ~Benign(env))
  /\ UNCHANGED <<diff, count, pc, conn, client, attempt, prev>>
  /\ UNCHANGED <<gitVars, confVars>>

\* Do, lines 98-101: full replay, one visit of the walk
VisitAll ==
  /\ pc = "walk"
  /\ count < 2
  /\ \E p \in WalkNext : \E env \in Envs(p) :
       Visited(p, uploadAllFiles(p, VisitState, env), env)

\* the differential replay chosen from the first build on
VisitDiffFromFirst ==
  /\ pc = "walk"
  /\ count >= 1
  /\ \E p \in WalkNext : \E env \in Envs(p) :
       Visited(p, uploadDiffFiles(p, VisitState, env), env)

\* Do, lines 103-104: differential replay, one visit of the walk
VisitDiff ==
  /\ pc = "walk"
  /\ count >= 2
  /\ \E p \in WalkNext : \E env \in Envs(p) :
       Visited(p, uploadDiffFiles(p, VisitState, env), env)

\* the walk is over (all visited, or the visitor failed): Do returns its
\* error and the deferred conn.Close and client.Close run (lines 91-92)
Return ==
  /\ pc = "walk"
  /\ WalkNext = {}
  /\ pc' = "done"
  /\ conn' = "closed"
  /\ client' = "closed"
  /\ UNCHANGED <<diff, count, rfiles, rdirs, err, visited, oplog,
                 createdDirs, attempt, fault, prev>>
  /\ UNCHANGED <<gitVars, confVars>>

\* the caller runs Do again with the same context against the remote the
\* previous run left
Again ==
  /\ pc = "done"
  /\ attempt < MaxAttempts
  /\ attempt' = attempt + 1
  /\ prev' = [ran |-> TRUE, err |-> err, rfiles |-> rfiles]
  /\ pc' = "idle"
  /\ conn' = "none"
  /\ client' = "none"
  /\ err' = Nil
  /\ visited' = <<>>
  /\ oplog' = <<>>
  /\ createdDirs' = {}
  /\ fault' = FALSE
  /\ UNCHANGED <<diff, count, rfiles, rdirs>>
  /\ UNCHANGED <<gitVars, confVars>>



\* ================================================================ GitTask
GitNil == [kind |-> "nil", text |-> ""]
ErrGitNotRepo == [kind |-> "ErrGitNotRepo",
                  text |-> "destination directory is not a git repository"]
ErrGitNoBranch == [kind |-> "ErrGitNoBranch",
                   text |-> "can not read git respository's branch"]
\* the error of com.ExecCmdDir for a process that failed
ExecErr(cmd) == [kind |-> "exec", text |-> cmd]
\* errors.New(stderr)
StderrErr(text) == [kind |-> "stderr", text |-> text]

NoFail == [step |-> "none", stderr |-> ""]
Stderrs == {"", "fatal: unable to access"}

\* strings are sequences of one-character strings
NL == "\n"
BranchNames == {<<"m">>, <<"d">>}
\* a line of "git branch": "* name" for the current branch, "  name" otherwise
BranchLines == {<<mark, " ">> \o n : mark \in {"*", " "}, n \in BranchNames}

RECURSIVE Unlines(_)
Unlines(ls) == IF ls = <<>> THEN <<>> ELSE ls[1] \o <<NL>> \o Unlines(Tail(ls))

Listings == {Unlines(ls) : ls \in UNION {[1..n -> BranchLines] : n \in 0..MaxLines}}

\* strings.Split(s, sep), sep one character
RECURSIVE Split(_, _)
Split(s, sep) ==
  LET at == {i \in 1..Len(s) : s[i] = sep}
  IN IF at = {} THEN <<s>>
     ELSE LET i == CHOOSE k \in at : \A j \in at : k <= j
          IN <<SubSeq(s, 1, i - 1)>> \o Split(SubSeq(s, i + 1, Len(s)), sep)

\* strings.HasPrefix(s, c), c one character
HasPrefix(s, c) == Len(s) >= 1 /\ s[1] = c

\* the lines of the listing that are marked current
MarkedLines(c) ==
  LET contentData == Split(c, NL)
  IN {i \in 1..Len(contentData) : HasPrefix(contentData[i], "*")}

\* readRepo, lines 78-86: the branch of the first line marked "*" is stored;
\* g.opt.Branch keeps its value when no line is marked
readRepo(c, old) ==
  LET contentData == Split(c, NL)
      marked == MarkedLines(c)
  IN IF marked = {} THEN old
     ELSE LET i == CHOOSE k \in marked : \A j \in marked : k <= j
              cntData == Split(contentData[i], " ")
          IN cntData[Len(cntData)]

\* g.opt.Message set by New (line 46)
Message == <<"Site Updated at ", "{now}">>

\* time.Format(time.RFC3339)
Format(t) == ToString(t)

\* strings.NewReplacer("{now}", text).Replace(msg)
Replace(msg, text) ==
  [i \in 1..Len(msg) |-> IF msg[i] = "{now}" THEN text ELSE msg[i]]

\* a replacer built with time.Now() at every commit
gitMessageReplacerPerCommit(msg) == Replace(msg, Format(clock))

\* gitMessageReplacer (line 23): package variable, built once with the
\* time.Now() of package initialisation
gitMessageReplacer(msg) == Replace(msg, Format(startTime))

GitCmd(cmd, arg) == [cmd |-> cmd, arg |-> arg]

GitInit ==
  /\ Branch = <<>>
  /\ gpc = "idle"
  /\ isRepo \in BOOLEAN
  /\ content = <<>>
  /\ gops = <<>>
  /\ gerr = GitNil
  /\ gfail = NoFail
  /\ clock = 1
  /\ startTime = 1
  /\ messages = <<>>
  /\ invocation = 1

\* Do without the test for the .git directory
GitCheckMissing ==
  /\ gpc = "idle"
  /\ gpc' = "read"
  /\ UNCHANGED <<Branch, isRepo, content, gops, gerr, gfail, clock, startTime,
                 messages, invocation>>
  /\ UNCHANGED <<sftpVars, confVars>>

\* Do, lines 91-94
GitCheck ==
  /\ gpc = "idle"
  /\ IF isRepo
     THEN gpc' = "read" /\ gerr' = gerr
     ELSE gpc' = "done" /\ gerr' = ErrGitNotRepo
  /\ UNCHANGED <<Branch, isRepo, content, gops, gfail, clock, startTime,
                 messages, invocation>>
  /\ UNCHANGED <<sftpVars, confVars>>

\* Do, lines 96-101, with readRepo
GitReadRepo ==
  /\ gpc = "read"
  /\ gops' = Append(gops, GitCmd("branch", <<>>))
  /\ \E ok \in BOOLEAN : \E c \in Listings : \E stderr \in Stderrs :
       IF ~ok
       THEN /\ content' = <<>>
            /\ Branch' = Branch
            /\ gerr' = ExecErr("branch")
            /\ gfail' = [step |-> "branch", stderr |-> stderr]
            /\ gpc' = "done"
       ELSE /\ content' = c
            /\ Branch' = readRepo(c, Branch)
            /\ gfail' = gfail
            /\ IF Branch' = <<>>
               THEN gerr' = ErrGitNoBranch /\ gpc' = "done"
               ELSE gerr' = gerr /\ gpc' = "add"
  /\ UNCHANGED <<isRepo, clock, startTime, messages, invocation>>
  /\ UNCHANGED <<sftpVars, confVars>>

\* the stage step with Do going on to the commit after a failure
GitAddGoOn ==
  /\ gpc = "add"
  /\ gops' = Append(gops, GitCmd("add", <<>>))
  /\ \E ok \in BOOLEAN : \E stderr \in Stderrs :
       IF ok
       THEN gerr' = gerr /\ gfail' = gfail
       ELSE /\ gerr' = ExecErr("add")
            /\ gfail' = [step |-> "add", stderr |-> stderr]
  /\ gpc' = "commit"
  /\ UNCHANGED <<Branch, isRepo, content, clock, startTime, messages, invocation>>
  /\ UNCHANGED <<sftpVars, confVars>>

\* Do, lines 103-108: git add --all
GitAdd ==
  /\ gpc = "add"
  /\ gops' = Append(gops, GitCmd("add", <<>>))
  /\ \E ok \in BOOLEAN : \E stderr \in Stderrs :
       IF ok
       THEN gpc' = "commit" /\ gerr' = gerr /\ gfail' = gfail
       ELSE /\ gpc' = "done"
            /\ gerr' = ExecErr("add")
            /\ gfail' = [step |-> "add", stderr |-> stderr]
  /\ UNCHANGED <<Branch, isRepo, content, clock, startTime, messages, invocation>>
  /\ UNCHANGED <<sftpVars, confVars>>

\* Do, lines 110-116: git commit -m message
GitCommit ==
  /\ gpc = "commit"
  /\ LET message == gitMessageReplacer(Message)
     IN /\ gops' = Append(gops, GitCmd("commit", message))
        /\ messages' = Append(messages, [text |-> message, at |-> clock])
  /\ \E ok \in BOOLEAN : \E stderr \in Stderrs :
       IF ok
       THEN gpc' = "push" /\ gerr' = gerr /\ gfail' = gfail
       ELSE /\ gpc' = "done"
            /\ gerr' = ExecErr("commit")
            /\ gfail' = [step |-> "commit", stderr |-> stderr]
  /\ UNCHANGED <<Branch, isRepo, content, clock, startTime, invocation>>
  /\ UNCHANGED <<sftpVars, confVars>>

\* Do, lines 118-129: git push --force origin Branch
GitPush ==
  /\ gpc = "push"
  /\ gops' = Append(gops, GitCmd("push", Branch))
  /\ \E ok \in BOOLEAN : \E stderr \in Stderrs :
       IF ok
       THEN gerr' = GitNil /\ gfail' = gfail
       ELSE /\ gerr' = IF stderr # "" THEN StderrErr(stderr) ELSE ExecErr("push")
            /\ gfail' = [step |-> "push", stderr |-> stderr]
  /\ gpc' = "done"
  /\ UNCHANGED <<Branch, isRepo, content, clock, startTime, messages, invocation>>
  /\ UNCHANGED <<sftpVars, confVars>>

\* the wall clock advances
Tick ==
  /\ clock < MaxClock
  /\ clock' = clock + 1
  /\ UNCHANGED <<Branch, gpc, isRepo, content, gops, gerr, gfail, startTime,
                 messages, invocation>>
  /\ UNCHANGED <<sftpVars, confVars>>

\* the caller runs Do again on the same task in the same process
GitAgain ==
  /\ gpc = "done"
  /\ invocation < MaxInvocations
  /\ invocation' = invocation + 1
  /\ gpc' = "idle"
  /\ isRepo' \in BOOLEAN
  /\ content' = <<>>
  /\ gops' = <<>>
  /\ gerr' = GitNil
  /\ gfail' = NoFail
  /\ UNCHANGED <<Branch, clock, startTime, messages>>
  /\ UNCHANGED <<sftpVars, confVars>>

GitNext == GitCheck \/ GitReadRepo \/ GitAdd \/ GitCommit \/ GitPush \/ Tick \/ GitAgain

\* ========================================================== configuration
\* strings are sequences of one-character strings
SftpScheme == <<"s", "f", "t", "p", ":", "/", "/">>
GitScheme == <<"g", "i", "t", ":", "/", "/">>
SshScheme == <<"s", "s", "h", ":", "/", "/">>
HomeMarker == <<"/", "~">>
HomePrefix == <<"/", "~", "/">>
Digits == {"0", "1", "2", "3", "4", "5", "6", "7", "8", "9"}

\* the configuration of the specification's example
ExampleConf ==
  <<"s", "f", "t", "p", ":", "/", "/", "a", "l", "i", "c", "e", ":", "s", "e", "c", "r", "e", "t", "@", "h", "o", "s", "t", ".", "e", "x", "a", "m", "p", "l", "e", ".", "c", "o", "m", ":", "2", "2", "/", "~", "/", "s", "i", "t", "e">>

\* the configuration strings tried: a scheme, the characters before the
\* "@", the "@" or nothing, and what follows it
ConfSchemes == {SftpScheme, GitScheme, <<>>, GitScheme \o SftpScheme}
CredChars == {"a", "s", ":"}
ConfCreds == UNION {[1..n -> CredChars] : n \in 0..MaxCredLen}
ConfRests == {<<"h">>,
              <<"h", ":", "2">>,
              <<"h", "/", "d">>,
              <<"h", "/", "~", "/", "d">>,
              <<"h", ":", "2", "/", "~", "/", "d">>,
              <<"h", "/", "~">>,
              <<"h", "/", "~", "d">>,
              <<"h", "@", "h">>}
Confs ==
  {sc \o cr \o at \o rest : sc \in ConfSchemes, cr \in ConfCreds,
                            at \in {<<"@">>, <<>>}, rest \in ConfRests}
    \cup {ExampleConf}

\* strings.HasPrefix(s, prefix)
HasPrefixStr(s, prefix) ==
  Len(s) >= Len(prefix) /\ SubSeq(s, 1, Len(prefix)) = prefix

\* strings.TrimPrefix(s, prefix)
TrimPrefix(s, prefix) ==
  IF HasPrefixStr(s, prefix) THEN SubSeq(s, Len(prefix) + 1, Len(s)) ELSE s

\* strings.TrimLeft(s, cutset): drops every leading character that occurs
\* in cutset
TrimLeft(s, cutset) ==
  LET keep == {i \in 1..Len(s) : s[i] \notin Range(cutset)}
  IN IF keep = {} THEN <<>>
     ELSE SubSeq(s, CHOOSE k \in keep : \A j \in keep : k <= j, Len(s))

\* url.Parse("ssh://" + address): Host is the authority, up to the first
\* "/", Path the rest; a port that is not a number is an error.  (No
\* user info, query, fragment or escape occurs in the strings tried.)
UrlParse(raw) ==
  LET rest == TrimPrefix(raw, SshScheme)
      slashes == {i \in 1..Len(rest) : rest[i] = "/"}
      cut == IF slashes = {} THEN Len(rest) + 1
             ELSE CHOOSE k \in slashes : \A j \in slashes : k <= j
      host == SubSeq(rest, 1, cut - 1)
      colons == {i \in 1..Len(host) : host[i] = ":"}
      port == IF colons = {} THEN <<>>
              ELSE SubSeq(host, (CHOOSE k \in colons : \A j \in colons : k >= j) + 1,
                          Len(host))
  IN [ok |-> \A i \in 1..Len(port) : port[i] \in Digits,
      Host |-> host,
      Path |-> SubSeq(rest, cut, Len(rest))]

NoTask == [err |-> "none", User |-> <<>>, Password |-> <<>>, Address |-> <<>>,
           Host |-> <<>>, Directory |-> <<>>]
ConfError(e) == [NoTask EXCEPT !.err = e]

\* SftpTask.New without the test of len(userData)
SftpNewNoUserCheck(c) ==
  LET trimmed == TrimLeft(c, SftpScheme)
      confData == Split(trimmed, "@")
      userData == Split(confData[1], ":")
      u == UrlParse(SshScheme \o confData[2])
      p == u.Path
  IN IF Len(confData) # 2 THEN ConfError("ErrDeployConfFormatError")
     ELSE IF ~u.ok THEN ConfError("url.Parse")
     ELSE [err |-> "nil",
           User |-> userData[1],
           Password |-> IF Len(userData) >= 2 THEN userData[2] ELSE <<>>,
           Address |-> confData[2],
           Host |-> u.Host,
           Directory |-> IF HasPrefixStr(p, HomeMarker)
                         THEN TrimPrefix(p, HomePrefix) ELSE p]

\* SftpTask.New (lines 39-68)
SftpNew(c) ==
  LET trimmed == TrimLeft(c, SftpScheme)
      confData == Split(trimmed, "@")
      userData == Split(confData[1], ":")
      u == UrlParse(SshScheme \o confData[2])
      p == u.Path
  IN IF Len(confData) # 2 THEN ConfError("ErrDeployConfFormatError")
     ELSE IF Len(userData) # 2 THEN ConfError("ErrDeployConfFormatError")
     ELSE IF ~u.ok THEN ConfError("url.Parse")
     ELSE [err |-> "nil",
           User |-> userData[1],
           Password |-> userData[2],
           Address |-> confData[2],
           Host |-> u.Host,
           Directory |-> IF HasPrefixStr(p, HomeMarker)
                         THEN TrimPrefix(p, HomePrefix) ELSE p]

\* SftpTask.Is with strings.Contains in place of strings.HasPrefix
SftpIsContains(c) ==
  \E i \in 1..Len(c) :
    i + Len(SftpScheme) - 1 <= Len(c)
      /\ SubSeq(c, i, i + Len(SftpScheme) - 1) = SftpScheme

\* SftpTask.Is (lines 75-78)
SftpIs(c) == HasPrefixStr(c, SftpScheme)

\* GitTask.Is (lines 67-70)
GitIs(c) == HasPrefixStr(c, GitScheme)

\* GitTask.New (lines 41-55): the task, or an error for an empty directory
GitNew(c) ==
  LET dir == TrimPrefix(c, GitScheme)
  IN IF dir = <<>> THEN [kind |-> "error", name |-> "git", err |-> "git deploy conf"]
     ELSE [kind |-> "task", name |-> "git", err |-> "nil"]

\* the backend prototypes: name, predicate and constructor
BackendIs(name, c) == IF name = "git" THEN GitIs(c) ELSE SftpIs(c)
BackendNew(name, c) ==
  IF name = "git" THEN GitNew(c)
  ELSE IF SftpNew(c).err = "nil"
       THEN [kind |-> "task", name |-> "sftp", err |-> "nil"]
       ELSE [kind |-> "error", name |-> "sftp", err |-> SftpNew(c).err]

\* the selection: the first prototype of the list whose predicate
\* recognises the string builds the task; an error when none does
RECURSIVE Select(_, _)
Select(order, c) ==
  IF order = <<>> THEN [kind |-> "error", name |-> "none", err |-> "unrecognized target"]
  ELSE IF BackendIs(Head(order), c) THEN BackendNew(Head(order), c)
  ELSE Select(Tail(order), c)

Orders == {<<"git", "sftp">>, <<"sftp", "git">>}

ConfInit ==
  /\ conf \in Confs
  /\ cpc = "start"
  /\ parsed = NoTask
  /\ selected = [o \in Orders |-> [kind |-> "none", name |-> "none", err |-> "nil"]]

\* SftpTask.New(conf)
ParseSftp ==
  /\ cpc = "start"
  /\ parsed' = SftpNew(conf)
  /\ cpc' = "parsed"
  /\ UNCHANGED <<conf, selected>>
  /\ UNCHANGED <<sftpVars, gitVars>>

\* the selection, under each registration order
SelectBackend ==
  /\ cpc = "parsed"
  /\ selected' = [o \in Orders |-> Select(o, conf)]
  /\ cpc' = "selected"
  /\ UNCHANGED <<conf, parsed>>
  /\ UNCHANGED <<sftpVars, gitVars>>

\* no configuration handled
ConfIdle ==
  /\ conf = <<>>
  /\ cpc = "off"
  /\ parsed = NoTask
  /\ selected = [o \in Orders |-> [kind |-> "none", name |-> "none", err |-> "nil"]]

\* ========================================================= specifications
vars == <<sftpVars, gitVars, confVars>>

\* no SftpTask run: the state of a task that is never started
SftpIdle ==
  /\ diff = [p \in Paths |-> NoEntry]
  /\ count = 1
  /\ rdirs = {}
  /\ rfiles = [p \in Paths |-> NoFile]
  /\ pc = "off"
  /\ conn = "none"
  /\ client = "none"
  /\ err = Nil
  /\ visited = <<>>
  /\ oplog = <<>>
  /\ createdDirs = {}
  /\ attempt = 1
  /\ fault = FALSE
  /\ prev = [ran |-> FALSE, err |-> Nil, rfiles |-> rfiles]

\* no GitTask run
GitIdle ==
  /\ Branch = <<>>
  /\ gpc = "off"
  /\ isRepo = FALSE
  /\ content = <<>>
  /\ gops = <<>>
  /\ gerr = GitNil
  /\ gfail = NoFail
  /\ clock = 1
  /\ startTime = 1
  /\ messages = <<>>
  /\ invocation = 1

\* one SftpTask.Do
Init == SftpInit /\ GitIdle /\ ConfIdle
Next == Connect \/ Prime \/ VisitAll \/ VisitDiff \/ Return
Spec == Init /\ [][Next]_vars

\* SftpTask.Do run again against the remote the run before left
NextRetry == Connect \/ Prime \/ VisitAll \/ VisitDiff \/ Return \/ Again
InitRetry == Init /\ Cardinality(DiffPaths) <= MaxRetryEntries
SpecRetry == InitRetry /\ [][NextRetry]_vars

\* the first build: full replays onto a remote that holds no file yet, run
\* again against the remote the run before left
InitMemo ==
  /\ Init
  /\ count < 2
  /\ Cardinality(DiffPaths) <= MaxRetryEntries
  /\ \A p \in Paths : rfiles[p] = NoFile
NextMemo == Connect \/ Prime \/ VisitAll \/ Return \/ Again
SpecMemo == InitMemo /\ [][NextMemo]_vars

\* GitTask.Do, run up to MaxInvocations times in one process
InitGit == GitInit /\ SftpIdle /\ ConfIdle
SpecGit == InitGit /\ [][GitNext]_vars

\* a task built from a configuration string
InitConf == ConfInit /\ SftpIdle /\ GitIdle
NextConf == ParseSftp \/ SelectBackend
SpecConf == InitConf /\ [][NextConf]_vars

\* ================================================================= claims
CountOps(o, p) ==
  Cardinality({i \in 1..Len(oplog) : oplog[i].op = o /\ oplog[i].path = p})

\* client.Stat returned the file of p in this run
StatFound(p) == \E i \in 1..Len(oplog) : oplog[i] = Op("stat", p, TRUE)

\* the remote file of p when the run began; a run touches it only in the
\* visit of p
Before(p) == prev.rfiles[p]

\* C1: a full replay that returns no error has issued, for every entry that
\* is not REMOVE, exactly one Create and one copy of its path and no delete;
\* for every REMOVE entry exactly one delete and no write; nothing for a
\* path without an entry.
FullReplayExact ==
  (pc = "done" /\ count < 2 /\ err = Nil) =>
    \A p \in Paths :
      IF diff[p] = NoEntry
      THEN CountOps("create", p) = 0 /\ CountOps("copy", p) = 0
           /\ CountOps("remove", p) = 0
      ELSE IF diff[p].behavior = DIFF_REMOVE
      THEN CountOps("remove", p) = 1 /\ CountOps("create", p) = 0
           /\ CountOps("copy", p) = 0
      ELSE CountOps("create", p) = 1 /\ CountOps("copy", p) = 1
           /\ CountOps("remove", p) = 0

FullReplayDone ==
  /\ pc = "done" /\ count < 2 /\ err = Nil
  /\ \E p \in Paths : diff[p].behavior = DIFF_REMOVE
  /\ \E p \in Paths : diff[p].behavior \in {DIFF_ADD, DIFF_KEEP}

\* C2, as stated: in a differential replay a KEEP entry whose remote file
\* was found and whose time is older than or equal to the remote file's
\* causes no remote write.
KeepNotNewerSkipped ==
  count >= 2 =>
    \A p \in Range(visited) :
      (diff[p].behavior = DIFF_KEEP /\ StatFound(p)
         /\ diff[p].time <= Before(p).mtime)
        => CountOps("create", p) = 0 /\ CountOps("copy", p) = 0

\* the entries a differential replay has to write
MustWrite(p) ==
  \/ diff[p].behavior = DIFF_ADD
  \/ /\ diff[p].behavior = DIFF_KEEP
     /\ ~Before(p).exists \/ diff[p].time > Before(p).mtime

\* C3: a differential replay that returns no error has issued exactly one
\* Create and one copy for every ADD entry and for every KEEP entry whose
\* remote file was missing or older than the entry, and the remote file
\* holds the new bytes.
DiffWritesExact ==
  (pc = "done" /\ count >= 2 /\ err = Nil) =>
    \A p \in DiffPaths :
      MustWrite(p) => /\ CountOps("create", p) = 1
                      /\ CountOps("copy", p) = 1
                      /\ rfiles[p].exists /\ rfiles[p].content = "new"

DiffWritesDone ==
  /\ pc = "done" /\ count >= 2 /\ err = Nil
  /\ \E p \in DiffPaths : diff[p].behavior = DIFF_ADD
  /\ \E p \in DiffPaths : diff[p].behavior = DIFF_KEEP /\ MustWrite(p)

\* what a finished visit of q leaves on the remote
Applied(q) ==
  IF diff[q].behavior = DIFF_REMOVE THEN ~rfiles[q].exists
  ELSE IF CountOps("create", q) > 0
  THEN rfiles[q].exists /\ rfiles[q].content = "new"
  ELSE rfiles[q] = Before(q)

\* C4: in both modes, once the local open, the remote Create or the copy
\* of path P has failed, that failed operation is the last one issued, P is
\* the last path visited, the error of Do is that failure, and every path
\* visited before P is still applied on the remote.
AbortAtFailure ==
  pc \in {"walk", "done"} =>
    \A i \in 1..Len(oplog) :
      (oplog[i].op \in {"open", "create", "copy"} /\ ~oplog[i].ok) =>
        /\ i = Len(oplog)
        /\ visited[Len(visited)] = oplog[i].path
        /\ err = Err(oplog[i].op, oplog[i].path)
        /\ \A j \in 1..(Len(visited) - 1) : Applied(visited[j])

AbortedMidWalk ==
  /\ pc = "done"
  /\ err.kind \in {"open", "create", "copy"}
  /\ Len(visited) >= 2
  /\ \E j \in 1..(Len(visited) - 1) : CountOps("create", visited[j]) = 1
  /\ Cardinality(DiffPaths) > Len(visited)

\* C5, as stated: when Do has returned, no transport session and no
\* file-transfer session is open.
NoSessionLeft ==
  pc = "done" => conn # "open" /\ client # "open"

\* C6, as stated: a replay run again with the same diff, after a run that
\* returned no error and with no failure of the network, the server or the
\* local disk, returns no error and leaves the remote files and their
\* contents as the first run left them.
RetrySafe ==
  (pc = "done" /\ prev.ran /\ prev.err = Nil /\ ~fault) =>
    /\ err = Nil
    /\ \A p \in Paths : /\ rfiles[p].exists = Before(p).exists
                        /\ rfiles[p].content = Before(p).content

\* the commands of this invocation
Issued(cmd) == \E i \in 1..Len(gops) : gops[i].cmd = cmd

\* C7: when the destination has no .git directory, Do issues no process
\* operation and returns ErrGitNotRepo.
NotRepoNoProcess ==
  (gpc # "off" /\ ~isRepo) =>
    /\ gops = <<>>
    /\ gpc = "done" => gerr = ErrGitNotRepo

NotRepoReturned ==
  /\ gpc = "done"
  /\ ~isRepo
  /\ invocation = 2
  /\ Branch # <<>>

\* "git branch" ran in this invocation and printed its listing
Listed == Issued("branch") /\ gfail.step # "branch"

\* the branch of the first line the listing marks current
MarkedBranch(c) == readRepo(c, <<>>)

\* C8, as stated: in every invocation, when the listing marks no line
\* current, Do issues no stage, commit or push and returns ErrGitNoBranch;
\* and a push names the branch marked current in the listing of the same
\* invocation.
BranchOfThisListing ==
  Listed =>
    /\ MarkedLines(content) = {} =>
         /\ ~Issued("add") /\ ~Issued("commit") /\ ~Issued("push")
         /\ gpc = "done" => gerr = ErrGitNoBranch
    /\ \A i \in 1..Len(gops) :
         gops[i].cmd = "push" =>
           MarkedLines(content) # {} /\ gops[i].arg = MarkedBranch(content)

\* C9, as stated: when the stage, commit or push step fails with non-empty
\* text on its error channel, Do returns that text as its error.
StderrPreferred ==
  (gpc = "done" /\ gfail.step \in {"add", "commit", "push"} /\ gfail.stderr # "")
    => gerr = StderrErr(gfail.stderr)

\* C10: all commit messages of one process carry the same text for {now},
\* the time of package initialisation, whenever the commits are made.
SameNowText ==
  \A i, j \in 1..Len(messages) :
    /\ messages[i].text = messages[j].text
    /\ messages[i].text = <<"Site Updated at ", Format(startTime)>>

TwoCommitsApart ==
  /\ Len(messages) = 2
  /\ messages[1].at < messages[2].at

\* ------------------------------------------------------ directory claims
\* the directories of the entries, relative to the remote root
EntryDirs == UNION {Ancestors(p) : p \in Paths}

\* C13: within one full replay no Mkdir is issued for a directory after a
\* Mkdir for it has succeeded; the memo is empty when a run begins and
\* holds exactly the directories whose Mkdir succeeded in this run.
CreatedOnce ==
  /\ pc \in {"idle", "prime"} => createdDirs = {}
  /\ (pc \in {"walk", "done"} /\ count < 2) =>
       /\ \A i, j \in 1..Len(oplog) :
            (i < j /\ oplog[i].op = "mkdir" /\ oplog[i].ok)
              => ~(oplog[j].op = "mkdir" /\ oplog[j].path = oplog[i].path)
       /\ createdDirs =
            {d \in EntryDirs : \E i \in 1..Len(oplog) :
                                  oplog[i] = Op("mkdir", Join(Directory, d), TRUE)}

SharedDirSecondRun ==
  /\ pc = "done"
  /\ count < 2
  /\ prev.ran
  /\ Len(visited) >= 2
  /\ \E d \in createdDirs : \A k \in 1..Len(visited) : d \in Ancestors(visited[k])

\* C14, as stated: once priming is over, a Mkdir has been issued for every
\* component of the remote root, whatever Mkdir failed.
PrimingAttemptsAll ==
  (pc \in {"walk", "done"} /\ client # "none") =>
    \A d \in Range(getDirs(Directory)) : CountOps("mkdir", d) > 0

\* C15: a full replay (count below 2) issues no Stat and passes over no
\* entry it visits; a differential replay (count 2 or more) keeps no memo
\* and issues the Stat of every KEEP entry it visits.
ModeByCount ==
  pc \in {"walk", "done"} =>
    /\ count < 2 =>
         /\ \A i \in 1..Len(oplog) : oplog[i].op # "stat"
         /\ \A k \in 1..Len(visited) :
              IF diff[visited[k]].behavior = DIFF_REMOVE
              THEN CountOps("remove", visited[k]) = 1
              ELSE CountOps("open", visited[k]) = 1
    /\ count >= 2 =>
         /\ createdDirs = {}
         /\ \A k \in 1..Len(visited) :
              diff[visited[k]].behavior = DIFF_KEEP
                => CountOps("stat", visited[k]) = 1

FullReplayWritesOlderKeep ==
  /\ pc = "done"
  /\ count < 2
  /\ \E p \in Range(visited) :
       /\ diff[p].behavior = DIFF_KEEP
       /\ SkipKeep(diff[p], Before(p))
       /\ CountOps("create", p) = 1

\* ------------------------------------------------------------- git order
GitOrder == <<"branch", "add", "commit", "push">>

\* C16: the commands of one invocation are a prefix of branch, add, commit,
\* push; a failed step is the last command issued, Do has returned and its
\* error is that step's; Do returns nil only after all four were issued
\* and none failed.
StepsInOrder ==
  gpc # "off" =>
    /\ Len(gops) <= Len(GitOrder)
    /\ \A i \in 1..Len(gops) : gops[i].cmd = GitOrder[i]
    /\ gfail.step # "none" =>
         /\ gops[Len(gops)].cmd = gfail.step
         /\ gpc = "done"
         /\ gerr = IF gfail.step = "push" /\ gfail.stderr # ""
                   THEN StderrErr(gfail.stderr) ELSE ExecErr(gfail.step)
    /\ (gpc = "done" /\ gerr = GitNil) =>
         /\ Len(gops) = Len(GitOrder)
         /\ gfail = NoFail

CommitFailedSecondTime ==
  /\ gpc = "done"
  /\ invocation > 1
  /\ gfail.step = "commit"
  /\ Len(gops) < Len(GitOrder)

\* ------------------------------------------------------- failures, order
\* client.Stat failed on a file that exists
StatFailedAt(i) ==
  /\ oplog[i].op = "stat"
  /\ ~oplog[i].ok
  /\ Before(oplog[i].path).exists

\* C17, as stated: the failure of a remote create, delete, Stat or write is
\* the error Do returns.
RemoteFailuresSurfaced ==
  pc \in {"walk", "done"} =>
    \A i \in 1..Len(oplog) :
      ((oplog[i].op \in {"create", "remove", "copy"} /\ ~oplog[i].ok)
         \/ StatFailedAt(i))
        => err = Err(oplog[i].op, oplog[i].path)

\* C17, amended: the failure of a remote create, delete or write is the
\* error Do returns; the failure of a Mkdir or of a Stat is never returned,
\* and after a failed Stat the visit goes on to the upload of the entry.
CreateDeleteWriteSurfaced ==
  pc \in {"walk", "done"} =>
    /\ err.kind \notin {"mkdir", "stat"}
    /\ \A i \in 1..Len(oplog) :
         /\ (oplog[i].op \in {"create", "remove", "copy"} /\ ~oplog[i].ok)
              => err = Err(oplog[i].op, oplog[i].path)
         /\ StatFailedAt(i) => CountOps("open", oplog[i].path) = 1

StatFailureSwallowed ==
  /\ pc = "done"
  /\ err = Nil
  /\ \E i \in 1..Len(oplog) : StatFailedAt(i)

FileOps == {"stat", "open", "create", "copy", "remove"}
IsFileOp(o) == o.op \in FileOps
VisitIndex(p) == CHOOSE k \in 1..Len(visited) : visited[k] = p
\* directory a is above the file or directory b
Above(a, b) == Len(a) < Len(b) /\ SubSeq(b, 1, Len(a)) = a

\* C18: the operations on the files appear in the order their paths were
\* visited, those of one path together; every Mkdir of the walk is followed
\* at once by the Mkdir of a directory below it or by the open of a file
\* below it; and before the open of a file a Mkdir was issued for each of
\* its ancestor directories.
OneAtATime ==
  pc \in {"walk", "done"} =>
    LET files == SelectSeq(oplog, IsFileOp)
    IN /\ \A i \in 1..Len(files) :
            \E k \in 1..Len(visited) : visited[k] = files[i].path
       /\ \A i \in 1..(Len(files) - 1) :
            \/ files[i].path = files[i + 1].path
            \/ VisitIndex(files[i].path) < VisitIndex(files[i + 1].path)
       /\ \A i \in 1..Len(oplog) :
            (oplog[i].op = "mkdir" /\ Len(oplog[i].path) > Len(Directory)) =>
              /\ i < Len(oplog)
              /\ \/ /\ oplog[i + 1].op = "mkdir"
                    /\ Above(oplog[i].path, oplog[i + 1].path)
                 \/ /\ oplog[i + 1].op = "open"
                    /\ Above(oplog[i].path, Join(Directory, oplog[i + 1].path))
       /\ \A j \in 1..Len(oplog) :
            oplog[j].op = "open" =>
              \A d \in Ancestors(oplog[j].path) :
                \E i \in 1..(j - 1) :
                  oplog[i].op = "mkdir" /\ oplog[i].path = Join(Directory, d)

RemoveThenNestedWrite ==
  /\ pc = "done"
  /\ count >= 2
  /\ Len(visited) >= 2
  /\ diff[visited[1]].behavior = DIFF_REMOVE
  /\ CountOps("remove", visited[1]) = 1
  /\ Len(visited[2]) > 2
  /\ CountOps("copy", visited[2]) = 1

\* ---------------------------------------------------- configuration claims
\* the string after the scheme, its part before the first "@" and the rest
ConfBody(c) == TrimPrefix(c, SftpScheme)
HasAt(c) == \E i \in 1..Len(ConfBody(c)) : ConfBody(c)[i] = "@"
ConfCred(c) == Split(ConfBody(c), "@")[1]
HasCredColon(c) == \E i \in 1..Len(ConfCred(c)) : ConfCred(c)[i] = ":"

\* sftp://<user>:<password>@<rest>, user and password without ":" and "@",
\* rest without "@"
WellFormed(c) ==
  /\ SftpIs(c)
  /\ Len(Split(ConfBody(c), "@")) = 2
  /\ Len(Split(ConfCred(c), ":")) = 2
ConfUser(c) == Split(ConfCred(c), ":")[1]
ConfPassword(c) == Split(ConfCred(c), ":")[2]
ConfRest(c) == Split(ConfBody(c), "@")[2]
\* host[:port] and path of the rest
ConfHostPort(c) == Split(ConfRest(c), "/")[1]
ConfPath(c) == SubSeq(ConfRest(c), Len(ConfHostPort(c)) + 1, Len(ConfRest(c)))
\* a path without the home marker and the "/" after it
StripMarker(path) == TrimPrefix(TrimPrefix(path, HomeMarker), <<"/">>)

\* C11, as stated: the example parses to user alice, password secret,
\* address host.example.com:22 and directory site; for every well-formed
\* string that New accepts the address is the host[:port] part and a path
\* that begins with the home marker gives the directory without the marker.
ExampleParsed ==
  cpc \in {"parsed", "selected"} =>
    /\ conf = ExampleConf =>
         /\ parsed.err = "nil"
         /\ parsed.User = <<"a", "l", "i", "c", "e">>
         /\ parsed.Password = <<"s", "e", "c", "r", "e", "t">>
         /\ parsed.Address = <<"h", "o", "s", "t", ".", "e", "x", "a", "m", "p", "l", "e", ".", "c", "o", "m", ":", "2", "2">>
         /\ parsed.Directory = <<"s", "i", "t", "e">>
    /\ (WellFormed(conf) /\ parsed.err = "nil") =>
         /\ parsed.Address = ConfHostPort(conf)
         /\ HasPrefixStr(ConfPath(conf), HomeMarker)
              => parsed.Directory = StripMarker(ConfPath(conf))

\* C12: SftpTask.New returns the format error, and no task, for every
\* string that has no "@" after the scheme or no ":" between the scheme and
\* the "@".
FormatErrors ==
  (cpc \in {"parsed", "selected"} /\ (~HasAt(conf) \/ ~HasCredColon(conf))) =>
    parsed = ConfError("ErrDeployConfFormatError")

NoColonRejected ==
  /\ cpc = "parsed"
  /\ SftpIs(conf)
  /\ HasAt(conf)
  /\ ~HasCredColon(conf)
  /\ Len(ConfCred(conf)) > 0
  /\ parsed.err = "ErrDeployConfFormatError"

\* C19: no string is recognised by GitTask.Is and by SftpTask.Is; the
\* selection returns the same result under both registration orders, and
\* the result is a task of a backend that recognises the string or an error.
BackendsDisjoint ==
  cpc = "selected" =>
    /\ ~(GitIs(conf) /\ SftpIs(conf))
    /\ \A o1, o2 \in Orders : selected[o1] = selected[o2]
    /\ \A o \in Orders :
         \/ selected[o].kind = "task" /\ BackendIs(selected[o].name, conf)
         \/ selected[o].kind = "error"

NestedSchemeSelected ==
  /\ cpc = "selected"
  /\ HasPrefixStr(conf, GitScheme \o SftpScheme)
  /\ \A o \in Orders : selected[o].kind = "task" /\ selected[o].name = "git"

\* C20, as stated: for sftp://<user>:<password>@<rest> New yields a task
\* whose User is <user> and whose Password is <password>, whatever the user
\* name begins with.
CredentialsExact ==
  (cpc \in {"parsed", "selected"} /\ WellFormed(conf)
     /\ Len(ConfUser(conf)) > 0) =>
    /\ parsed.err = "nil"
    /\ parsed.User = ConfUser(conf)
    /\ parsed.Password = ConfPassword(conf)

====
